---- MODULE Spec2Model ----
(***************************************************************************)
(* Model of src/main.py: get_next_cards (the allocator) and the loop of    *)
(* main (the window walker) that feeds it the "ApexData" calendar events.  *)
(* Durations and times are integers (hours); a card is a record            *)
(* [id, name, estimated_hours].                                            *)
(***************************************************************************)
EXTENDS Integers, Sequences, FiniteSets, TLC

\* ---------------------------------------------------------------- bounds
MaxCards == 2
MaxDur == 3
MaxCap == 2
MaxEvents == 2
MaxPages == 2

Names == {"a", "b"}

\* hours between the end of one event and the start of the next
Gap == 1

\* first_task_occurance_name before any card was seen (main.py line 189)
NoName == ""
\* first_task_occurance_date is not assigned before the first card
NoDate == -1

VARIABLES
    cards,                      \* main: cards, the outstanding queue
    allocated_cards,            \* main: allocated_cards (result of the last call)
    unallocated_cards,          \* main: unallocated_cards (result of the last call)
    results_bound,              \* FALSE until line 204 has bound the two names above
    last_end_time,              \* main: last_end_time, the cursor
    apex_end,                   \* main: apex_end of the current window
    first_task_occurance_name,
    first_task_occurance_date,
    page_token,                 \* TRUE iff nextPageToken was present
    idx,                        \* position of "for card in allocated_cards"
    pc,                         \* position in main
    clock,                      \* end of the latest event the calendar returned
    events,                     \* number of events returned so far
    pages,                      \* number of pages requested so far
    orig,                       \* the input queue (history)
    callIn,                     \* the queue as it was handed to the last call (history)
    event_duration,             \* capacity handed to the last call
    placements,                 \* events created so far (history, append-only)
    noProgress,                 \* a window with nothing allocated and nothing left completed
    windows,                    \* the "ApexData" events handed to the allocator (history)
    unseen                      \* hours of "ApexData" events on pages main never requested

vars == <<cards, allocated_cards, unallocated_cards, results_bound, last_end_time,
          apex_end, first_task_occurance_name, first_task_occurance_date, page_token,
          idx, pc, clock, events, pages, orig, callIn, event_duration, placements,
          noProgress, windows, unseen>>

\* ---------------------------------------------------------------- helpers
RECURSIVE SumDur(_)
SumDur(s) == IF s = <<>> THEN 0 ELSE Head(s).estimated_hours + SumDur(Tail(s))

RECURSIVE SumPlaced(_)
SumPlaced(s) == IF s = <<>> THEN 0 ELSE Head(s).dur + SumPlaced(Tail(s))

Ids(s) == [i \in 1..Len(s) |-> s[i].id]

Card(i, n, d) == [id |-> i, name |-> n, estimated_hours |-> d]

\* every queue of at most MaxCards cards, ids 1..n in order, durations in durs;
\* names are only compared with each other, so the first card is named "a"
Queues(durs) ==
    UNION {{[i \in 1..n |-> Card(i, nm[i], du[i])] :
              nm \in {f \in [1..n -> Names] : n > 0 => f[1] = "a"},
              du \in [1..n -> durs]} : n \in 0..MaxCards}

\* ---------------------------------------------------------------- get_next_cards
\* a card that fills the window exactly is treated as not fitting
FitsStrict(used, d, cap) == used + d < cap

\* line 141
Fits(used, d, cap) == used + d <= cap

\* line 151
IsFirstNonFit(unalloc) == Len(unalloc) = 0

\* the capacity already used is not deducted
AllocatableWhole(cap, used) == cap

\* line 153
Allocatable(cap, used) == cap - used

\* line 162 never reached: the fragment is not handed out
KeepFragmentNever(frag) == FALSE

\* the filter of line 161 left out
KeepFragmentAlways(frag) == TRUE

\* line 161
KeepFragment(frag) == frag.estimated_hours > 0

\* the card keeps its duration although a fragment of it was handed out
LeftoverKeep(d, fit) == d

\* line 165
Leftover(d, fit) == d - fit

\* every card that does not fit is split against the capacity the whole cards
\* left (the guard of line 151 and the assignment of line 168 left out)
StepSplitEach(st, i, cap) ==
    LET card == st.cards[i]
        d == card.estimated_hours
    IN  IF Fits(st.used, d, cap)
        THEN [st EXCEPT !.allocated = Append(@, card), !.used = @ + d]
        ELSE LET fit == Allocatable(cap, st.used)
                 frag == [card EXCEPT !.estimated_hours = fit]
                 left == [card EXCEPT !.estimated_hours = Leftover(d, fit)]
             IN  [allocated |-> IF KeepFragment(frag)
                                THEN Append(st.allocated, frag)
                                ELSE st.allocated,
                  unallocated |-> Append(st.unallocated, left),
                  used |-> st.used,
                  cards |-> [st.cards EXCEPT ![i] = left]]

\* line 156 without copy(): the entry put into allocated is the card itself,
\* which line 166 then reduces to the leftover
StepNoCopy(st, i, cap) ==
    LET card == st.cards[i]
        d == card.estimated_hours
    IN  IF Fits(st.used, d, cap)
        THEN [st EXCEPT !.allocated = Append(@, card), !.used = @ + d]
        ELSE IF IsFirstNonFit(st.unallocated)
             THEN LET fit == Allocatable(cap, st.used)
                      frag == [card EXCEPT !.estimated_hours = fit]
                      left == [card EXCEPT !.estimated_hours = Leftover(d, fit)]
                  IN  [allocated |-> IF KeepFragment(frag)
                                     THEN Append(st.allocated, left)
                                     ELSE st.allocated,
                       unallocated |-> Append(st.unallocated, left),
                       used |-> cap,
                       cards |-> [st.cards EXCEPT ![i] = left]]
             ELSE [st EXCEPT !.unallocated = Append(@, card)]

\* one iteration of the loop of lines 135..173 on card i of the queue;
\* st.cards is the caller's list, whose cards are modified in place
Step(st, i, cap) ==
    LET card == st.cards[i]
        d == card.estimated_hours
    IN  IF Fits(st.used, d, cap)
        THEN [st EXCEPT !.allocated = Append(@, card), !.used = @ + d]
        ELSE IF IsFirstNonFit(st.unallocated)
             THEN LET fit == Allocatable(cap, st.used)
                      frag == [card EXCEPT !.estimated_hours = fit]
                      left == [card EXCEPT !.estimated_hours = Leftover(d, fit)]
                  IN  [allocated |-> IF KeepFragment(frag)
                                     THEN Append(st.allocated, frag)
                                     ELSE st.allocated,
                       unallocated |-> Append(st.unallocated, left),
                       used |-> cap,
                       cards |-> [st.cards EXCEPT ![i] = left]]
             ELSE [st EXCEPT !.unallocated = Append(@, card)]

RECURSIVE Scan(_, _, _)
Scan(st, i, cap) ==
    IF i > Len(st.cards) THEN st ELSE Scan(Step(st, i, cap), i + 1, cap)

get_next_cards(q, cap) ==
    Scan([allocated |-> <<>>, unallocated |-> <<>>, used |-> 0, cards |-> q], 1, cap)

\* ---------------------------------------------------------------- main
InitWith(durs) ==
    /\ cards \in Queues(durs)
    /\ orig = cards
    /\ allocated_cards = <<>>
    /\ unallocated_cards = <<>>
    /\ results_bound = FALSE
    /\ last_end_time = 0
    /\ apex_end = 0
    /\ first_task_occurance_name = NoName
    /\ first_task_occurance_date = NoDate
    /\ page_token = FALSE
    /\ idx = 1
    /\ pc = "fetch"
    /\ clock = 0
    /\ events = 0
    /\ pages = 0
    /\ callIn = <<>>
    /\ event_duration = 0
    /\ placements = <<>>
    /\ noProgress = FALSE
    /\ windows = <<>>
    /\ unseen = 0

Init == InitWith(0..MaxDur)

\* lines 192-193: request one page of events
FetchPage ==
    /\ pc = "fetch"
    /\ pc' = "items"
    /\ pages' = pages + 1
    /\ UNCHANGED <<cards, allocated_cards, unallocated_cards, results_bound,
                   last_end_time, apex_end, first_task_occurance_name,
                   first_task_occurance_date, page_token, idx, clock, events, orig,
                   callIn, event_duration, placements, noProgress, windows, unseen>>

\* lines 194-196: the next event of the page is not an "ApexData" event
SkipEvent ==
    /\ pc = "items"
    /\ events < MaxEvents
    /\ events' = events + 1
    /\ UNCHANGED <<cards, allocated_cards, unallocated_cards, results_bound,
                   last_end_time, apex_end, first_task_occurance_name,
                   first_task_occurance_date, page_token, idx, pc, clock, pages, orig,
                   callIn, event_duration, placements, noProgress, windows, unseen>>

\* lines 196-204: the next event is an "ApexData" event of duration cap
StartWindow(caps) ==
    /\ pc = "items"
    /\ events < MaxEvents
    /\ \E cap \in caps :
          LET apex_start == clock + Gap
              r == get_next_cards(cards, cap)
          IN  /\ last_end_time' = apex_start
              /\ apex_end' = apex_start + cap
              /\ clock' = IF cap > 0 THEN apex_start + cap ELSE apex_start
              /\ event_duration' = cap
              /\ callIn' = cards
              /\ windows' = Append(windows, [start |-> apex_start, cap |-> cap])
              /\ allocated_cards' = r.allocated
              /\ unallocated_cards' = r.unallocated
              /\ cards' = r.cards
    /\ results_bound' = TRUE
    /\ events' = events + 1
    /\ idx' = 1
    /\ pc' = "emit"
    /\ UNCHANGED <<first_task_occurance_name, first_task_occurance_date, page_token,
                   pages, orig, placements, noProgress, unseen>>

\* the anchor of lines 208-213 for the card about to be placed
AnchorName(card) == card.name

AnchorDate(card) ==
    IF first_task_occurance_name # card.name THEN last_end_time
    ELSE first_task_occurance_date

Placement(card) ==
    [id |-> card.id, name |-> card.name, start |-> last_end_time,
     dur |-> card.estimated_hours, first |-> AnchorDate(card)]

\* lines 206-224: one iteration of "for card in allocated_cards"
Emit ==
    /\ pc = "emit"
    /\ idx <= Len(allocated_cards)
    /\ LET card == allocated_cards[idx]
       IN  /\ first_task_occurance_name' = AnchorName(card)
           /\ first_task_occurance_date' = AnchorDate(card)
           /\ placements' = Append(placements, Placement(card))
           /\ last_end_time' = last_end_time + card.estimated_hours
    /\ idx' = idx + 1
    /\ UNCHANGED <<cards, allocated_cards, unallocated_cards, results_bound, apex_end,
                   page_token, pc, clock, events, pages, orig, callIn, event_duration,
                   noProgress, windows, unseen>>

\* line 216 raises (create_event, before the event exists) or line 222 raises
\* (update_card_dates, after it was created); the exception ends main
SinkFail ==
    /\ pc = "emit"
    /\ idx <= Len(allocated_cards)
    /\ LET card == allocated_cards[idx]
       IN  /\ first_task_occurance_name' = AnchorName(card)
           /\ first_task_occurance_date' = AnchorDate(card)
           /\ \/ placements' = placements /\ pc' = "create_failed"
              \/ placements' = Append(placements, Placement(card)) /\ pc' = "update_failed"
    /\ UNCHANGED <<cards, allocated_cards, unallocated_cards, results_bound,
                   last_end_time, apex_end, page_token, idx, clock, events, pages, orig,
                   callIn, event_duration, noProgress, windows, unseen>>

\* line 226: cards = unallocated_cards
EndWindow ==
    /\ pc = "emit"
    /\ idx > Len(allocated_cards)
    /\ cards' = unallocated_cards
    /\ noProgress' = (noProgress \/ (allocated_cards = <<>> /\ unallocated_cards = <<>>))
    /\ pc' = "items"
    /\ UNCHANGED <<allocated_cards, unallocated_cards, results_bound, last_end_time,
                   apex_end, first_task_occurance_name, first_task_occurance_date,
                   page_token, idx, clock, events, pages, orig, callIn, event_duration,
                   placements, windows, unseen>>

\* lines 230-236: the page has no more events
EndPage ==
    /\ pc = "items"
    /\ \E token \in BOOLEAN :
          /\ token => pages < MaxPages
          /\ page_token' = token
          /\ pc' = IF ~token THEN "done"
                   ELSE IF ~results_bound THEN "error"
                   ELSE IF Len(allocated_cards) = 0 /\ Len(unallocated_cards) = 0
                        THEN "done"
                   ELSE "fetch"
          /\ unseen' \in IF token /\ pc' # "fetch" THEN 0..MaxCap ELSE {0}
    /\ UNCHANGED <<cards, allocated_cards, unallocated_cards, results_bound,
                   last_end_time, apex_end, first_task_occurance_name,
                   first_task_occurance_date, idx, clock, events, pages, orig, callIn,
                   event_duration, placements, noProgress, windows>>

Next ==
    \/ FetchPage
    \/ SkipEvent
    \/ StartWindow(0..MaxCap)
    \/ Emit
    \/ SinkFail
    \/ EndWindow
    \/ EndPage

Spec == Init /\ [][Next]_vars

\* the same program fed estimates and event durations that may be negative
InitRaw == InitWith(-1..MaxDur)

NextRaw ==
    \/ FetchPage
    \/ SkipEvent
    \/ StartWindow(-1..MaxCap)
    \/ Emit
    \/ SinkFail
    \/ EndWindow
    \/ EndPage

SpecRaw == InitRaw /\ [][NextRaw]_vars

\* lines 206-224 as a whole: the placements of one window's allocated cards
RECURSIVE PlaceAll(_, _, _, _, _)
PlaceAll(alloc, cursor, name, date, out) ==
    IF alloc = <<>> THEN [name |-> name, date |-> date, out |-> out]
    ELSE LET card == Head(alloc)
             d == IF name # card.name THEN cursor ELSE date
         IN  PlaceAll(Tail(alloc), cursor + card.estimated_hours, card.name, d,
                      Append(out, [id |-> card.id, name |-> card.name,
                                   start |-> cursor, dur |-> card.estimated_hours,
                                   first |-> d]))

\* lines 194-226 over the events ws of one page that is the last one: the
\* placements main makes when the calendar returns every event at once
RECURSIVE SinglePage(_, _, _, _, _)
SinglePage(q, ws, name, date, out) ==
    IF ws = <<>> THEN out
    ELSE LET r == get_next_cards(q, Head(ws).cap)
             p == PlaceAll(r.allocated, Head(ws).start, name, date, out)
         IN  SinglePage(r.unallocated, Tail(ws), p.name, p.date, p.out)

\* ---------------------------------------------------------------- properties
\* duration of the card with identity id in queue q (0 when it is not there)
RECURSIVE DurIn(_, _)
DurIn(q, id) ==
    IF q = <<>> THEN 0
    ELSE IF Head(q).id = id THEN Head(q).estimated_hours
    ELSE DurIn(Tail(q), id)

\* total duration of the entries of s that carry identity id
RECURSIVE DurOfId(_, _)
DurOfId(s, id) ==
    IF s = <<>> THEN 0
    ELSE (IF Head(s).id = id THEN Head(s).estimated_hours ELSE 0) + DurOfId(Tail(s), id)

\* number of leading cards of q that fit as a whole in cap, one after the other
RECURSIVE FitCount(_, _)
FitCount(q, cap) ==
    IF q = <<>> \/ Head(q).estimated_hours > cap THEN 0
    ELSE 1 + FitCount(Tail(q), cap - Head(q).estimated_hours)

\* the last call met a card that does not fit; it is card NonFit of callIn
HasNonFit == results_bound /\ FitCount(callIn, event_duration) < Len(callIn)
NonFit == FitCount(callIn, event_duration) + 1
UsedAtNonFit == SumDur(SubSeq(callIn, 1, NonFit - 1))

\* positions of allocated_cards that hold less than their card had at the call
Fragments ==
    {i \in 1..Len(allocated_cards) :
        allocated_cards[i].estimated_hours < DurIn(callIn, allocated_cards[i].id)}

WindowDone == pc \in {"items", "fetch", "done"}

\* C1 (as stated): when the run ends, the durations placed add up to the
\* durations of the input queue.
C1_AllPlacedAtEnd == pc = "done" => SumPlaced(placements) = SumDur(orig)

\* C1 (amended): when the run ends, the durations placed plus the durations
\* still in the outstanding queue add up to the durations of the input queue.
C1_ConservedAtEnd ==
    pc = "done" => SumPlaced(placements) + SumDur(cards) = SumDur(orig)

C1_Witness ==
    /\ pc = "done"
    /\ Len(placements) > 0
    /\ SumDur(cards) > 0
    /\ \E i \in 1..Len(cards) : cards[i].estimated_hours < DurIn(orig, cards[i].id)

\* C2: after every completed window the queue holds the input total minus what
\* was placed; every call returns allocated and remainder that add up to its
\* input queue; the split card's duration is its fragment plus its remainder.
C2_QueueAccounting ==
    /\ WindowDone => SumDur(cards) = SumDur(orig) - SumPlaced(placements)
    /\ results_bound =>
          SumDur(allocated_cards) + SumDur(unallocated_cards) = SumDur(callIn)
    /\ HasNonFit =>
          DurIn(callIn, callIn[NonFit].id)
              = DurOfId(allocated_cards, callIn[NonFit].id)
                + DurOfId(unallocated_cards, callIn[NonFit].id)

C2_Witness ==
    /\ pc = "items"
    /\ HasNonFit
    /\ Fragments # {}
    /\ Len(placements) > 0
    /\ SumDur(cards) > 0

\* the identities of allocated followed by those of remainder, the split card
\* (first of remainder, when allocated holds a fragment of it) counted once
IdsOnce ==
    LET dup == /\ unallocated_cards # <<>>
               /\ \E i \in 1..Len(allocated_cards) :
                     allocated_cards[i].id = unallocated_cards[1].id
    IN  Ids(allocated_cards)
            \o Ids(IF dup THEN Tail(unallocated_cards) ELSE unallocated_cards)

\* C3: the identities of allocated followed by those of remainder, the split
\* card counted once, are the identities of the input queue in the same order.
C3_OrderPreserved == results_bound => IdsOnce = Ids(callIn)

\* C4: a call puts at most one fragment into allocated; every other entry is a
\* card of the input queue with its full duration.
C4_AtMostOneFragment ==
    results_bound =>
        /\ Cardinality(Fragments) <= 1
        /\ \A i \in 1..Len(allocated_cards) :
              i \notin Fragments =>
                  \E j \in 1..Len(callIn) : allocated_cards[i] = callIn[j]

C4_Witness ==
    /\ results_bound
    /\ Cardinality(Fragments) = 1
    /\ Len(unallocated_cards) >= 2
    /\ \A i \in 1..Len(unallocated_cards) : unallocated_cards[i].estimated_hours > 0

\* C5 (as stated): with capacity 0 every queue of non-negative durations,
\* zero durations included, comes back whole as remainder and nothing is
\* allocated.
C5_EmptyCapacity ==
    (results_bound /\ event_duration = 0) =>
        allocated_cards = <<>> /\ unallocated_cards = callIn

\* C5 (amended): with capacity 0 every queue of strictly positive durations
\* comes back whole as remainder and nothing is allocated.
C5_EmptyCapacityPositive ==
    (/\ results_bound
     /\ event_duration = 0
     /\ \A i \in 1..Len(callIn) : callIn[i].estimated_hours > 0) =>
        allocated_cards = <<>> /\ unallocated_cards = callIn

C5_Witness ==
    /\ results_bound
    /\ event_duration = 0
    /\ Len(callIn) >= 2
    /\ \A i \in 1..Len(callIn) : callIn[i].estimated_hours > 0
    /\ pc = "items"

\* C6: allocated is the leading cards that fit, optionally followed by one
\* fragment of the first card that does not fit as its last entry; every later
\* card is in remainder as it was.
C6_StrictInOrder ==
    HasNonFit =>
        /\ \/ allocated_cards = SubSeq(callIn, 1, NonFit - 1)
           \/ /\ Len(allocated_cards) = NonFit
              /\ SubSeq(allocated_cards, 1, NonFit - 1) = SubSeq(callIn, 1, NonFit - 1)
              /\ allocated_cards[NonFit].id = callIn[NonFit].id
        /\ Len(unallocated_cards) = Len(callIn) - NonFit + 1
        /\ Tail(unallocated_cards) = SubSeq(callIn, NonFit + 1, Len(callIn))

\* C7: when the capacity is used up exactly as the first card that does not fit
\* is reached, allocated has no entry for that card and the card is first in
\* remainder, unchanged; no placement of duration 0 is a fragment.
C7_NoZeroFragment ==
    /\ (HasNonFit /\ UsedAtNonFit = event_duration) =>
          /\ \A i \in 1..Len(allocated_cards) :
                allocated_cards[i].id # callIn[NonFit].id
          /\ unallocated_cards # <<>>
          /\ unallocated_cards[1] = callIn[NonFit]
    /\ \A i \in 1..Len(placements) :
          placements[i].dur = 0 => DurIn(orig, placements[i].id) = 0

C7_Witness ==
    /\ HasNonFit
    /\ UsedAtNonFit = event_duration
    /\ event_duration > 0
    /\ pc = "items"
    /\ Len(placements) > 0

\* the last call was handed a negative capacity or a card of negative duration
Malformed ==
    /\ results_bound
    /\ \/ event_duration < 0
       \/ \E i \in 1..Len(callIn) : callIn[i].estimated_hours < 0

\* C8: a call with a negative capacity or a negative duration ends the run with
\* InvalidInput; it returns no allocation and changes no card.
C8_FailFast ==
    Malformed =>
        /\ pc = "InvalidInput"
        /\ allocated_cards = <<>>
        /\ cards = callIn

\* C9: when creating an event fails, the queue holds exactly the work not yet
\* placed, and no card has been reduced for a fragment that was not placed.
C9_ResumableAfterSinkFailure ==
    pc = "create_failed" =>
        /\ SumDur(cards) = SumDur(orig) - SumPlaced(placements)
        /\ \A i \in 1..Len(cards) :
              cards[i].estimated_hours
                  >= DurIn(orig, cards[i].id) - DurOfId(
                        [k \in 1..Len(placements) |->
                            [id |-> placements[k].id,
                             estimated_hours |-> placements[k].dur]], cards[i].id)

\* C10: once a window with nothing allocated and nothing left has completed, no
\* further window is handed to the allocator and no further page is requested.
C10_StopsAtNoProgress ==
    [][noProgress => (pc' # "emit" /\ pages' = pages)]_vars

\* position of the earliest placement that carries the identity of placement k
FirstOf(k) ==
    CHOOSE j \in 1..k :
        /\ placements[j].id = placements[k].id
        /\ \A i \in 1..(j - 1) : placements[i].id # placements[k].id

\* C11: the overall start time reported with a placement is the start of the
\* earliest placement of the run that carries the same item id.
C11_AnchorPerItemId ==
    \A k \in 1..Len(placements) :
        placements[k].first = placements[FirstOf(k)].start

\* C12 (placements only): a run that ends normally has made the placements
\* of the single-page run over the same windows.
PagedAsSinglePage ==
    pc = "done" => placements = SinglePage(orig, windows, NoName, NoDate, <<>>)

\* C12: however the windows are divided into pages, the run reaches no error
\* state, the queue is what the last window left when a page is requested, and
\* the placements are those of the single-page run over the same windows.
C12_PaginationIndependence ==
    /\ pc # "error"
    /\ (pc = "fetch" /\ results_bound) => cards = unallocated_cards
    /\ PagedAsSinglePage

\* the single forward pass that returns at the first card that does not fit
GreedyFit == event_duration - UsedAtNonFit

GreedyAllocated ==
    IF ~HasNonFit THEN callIn
    ELSE SubSeq(callIn, 1, NonFit - 1)
            \o (IF GreedyFit > 0
                THEN <<[callIn[NonFit] EXCEPT !.estimated_hours = GreedyFit]>>
                ELSE <<>>)

GreedyRemainder ==
    IF ~HasNonFit THEN <<>>
    ELSE <<[callIn[NonFit] EXCEPT
               !.estimated_hours = IF GreedyFit > 0 THEN @ - GreedyFit ELSE @]>>
            \o SubSeq(callIn, NonFit + 1, Len(callIn))

\* C13: a call returns the result of the single forward pass: the leading
\* cards that fit, then a fragment of the next card for the capacity left when
\* that is positive; the remainder is that card, reduced by the fragment,
\* followed by all later cards; when every card fits the remainder is empty.
C13_GreedyReference ==
    results_bound =>
        /\ allocated_cards = GreedyAllocated
        /\ unallocated_cards = GreedyRemainder

\* start of the window of the last call
WindowStart == apex_end - event_duration

\* C14: the cursor starts at the window's start, each placement of a window
\* starts where the previous one ended, and the cursor never passes the
\* window's end: the allocated durations do not exceed the capacity, every
\* placement lies inside a window and placements do not overlap.
C14_InsideWindow ==
    /\ results_bound =>
          /\ SumDur(allocated_cards) <= event_duration
          /\ WindowStart <= last_end_time
          /\ last_end_time <= apex_end
    /\ pc = "emit" =>
          /\ last_end_time = WindowStart + SumDur(SubSeq(allocated_cards, 1, idx - 1))
          /\ \A j \in 1..(idx - 1) :
                LET p == placements[Len(placements) - (idx - 1) + j]
                IN  /\ p.start = WindowStart + SumDur(SubSeq(allocated_cards, 1, j - 1))
                    /\ p.dur = allocated_cards[j].estimated_hours
    /\ \A k \in 1..Len(placements) :
          \E w \in 1..Len(windows) :
              /\ windows[w].start <= placements[k].start
              /\ placements[k].start + placements[k].dur
                    <= windows[w].start + windows[w].cap
    /\ \A k \in 1..(Len(placements) - 1) :
          placements[k].start + placements[k].dur <= placements[k + 1].start

C14_Witness ==
    /\ pc = "emit"
    /\ idx = 3
    /\ Len(allocated_cards) = 2
    /\ Fragments = {2}
    /\ last_end_time = apex_end
    /\ unallocated_cards # <<>>

NonNegative(q) == \A i \in 1..Len(q) : q[i].estimated_hours >= 0

\* C15: no card of the queue or the remainder and no entry of allocated has a
\* negative duration; the first card of the remainder has a strictly positive
\* duration; a fragment's duration is strictly positive and strictly less than
\* the duration its card had before the call.
C15_WellFormedDurations ==
    /\ NonNegative(cards)
    /\ NonNegative(allocated_cards)
    /\ NonNegative(unallocated_cards)
    /\ unallocated_cards # <<>> => unallocated_cards[1].estimated_hours > 0
    /\ results_bound =>
          \A i \in 1..Len(allocated_cards) :
              allocated_cards[i] \notin {callIn[j] : j \in 1..Len(callIn)} =>
                  /\ allocated_cards[i].estimated_hours > 0
                  /\ allocated_cards[i].estimated_hours
                        < DurIn(callIn, allocated_cards[i].id)

C15_Witness ==
    /\ pc = "items"
    /\ Len(windows) >= 2
    /\ Fragments # {}
    /\ unallocated_cards # <<>>
    /\ unallocated_cards[1].estimated_hours < DurIn(callIn, unallocated_cards[1].id)
    /\ callIn[1].estimated_hours < DurIn(orig, callIn[1].id)

\* positions of the caller's list whose card the last call changed
Changed == {i \in 1..Len(callIn) : cards[i] # callIn[i]}

\* C16: right after a call the caller's list has the same cards in the same
\* places; at most one card, the first that did not fit, has another duration,
\* and only when a fragment of positive duration was put into allocated; the
\* fragment holds the capacity that was left, not the reduced duration, and
\* the remainder holds the cards of the list as they now are.
C16_Frame ==
    pc = "emit" =>
        /\ Len(cards) = Len(callIn)
        /\ \A i \in 1..Len(callIn) :
              cards[i].id = callIn[i].id /\ cards[i].name = callIn[i].name
        /\ Cardinality(Changed) <= 1
        /\ \A i \in Changed :
              /\ HasNonFit
              /\ i = NonFit
              /\ \E j \in 1..Len(allocated_cards) :
                    /\ allocated_cards[j].id = callIn[i].id
                    /\ allocated_cards[j].name = callIn[i].name
                    /\ allocated_cards[j].estimated_hours > 0
                    /\ allocated_cards[j].estimated_hours = event_duration - UsedAtNonFit
                    /\ allocated_cards[j].estimated_hours
                          = callIn[i].estimated_hours - cards[i].estimated_hours
        /\ \A u \in 1..Len(unallocated_cards) :
              \E i \in 1..Len(cards) : unallocated_cards[u] = cards[i]

C16_Witness ==
    /\ pc = "emit"
    /\ Changed = {2}
    /\ Len(allocated_cards) = 2
    /\ allocated_cards[2].estimated_hours # cards[2].estimated_hours

\* C17: when a call leaves a remainder, the durations it allocated add up to
\* the capacity exactly; capacity stays unused only when the whole queue was
\* allocated.
C17_FilledBeforeDeferred ==
    /\ (results_bound /\ unallocated_cards # <<>>) =>
          SumDur(allocated_cards) = event_duration
    /\ (results_bound /\ SumDur(allocated_cards) < event_duration) =>
          /\ unallocated_cards = <<>>
          /\ allocated_cards = callIn

C17_Witness ==
    /\ results_bound
    /\ Len(unallocated_cards) = 2
    /\ Fragments # {}
    /\ event_duration > 1
    /\ SumDur(allocated_cards) = event_duration

RECURSIVE SumCap(_)
SumCap(ws) == IF ws = <<>> THEN 0 ELSE Head(ws).cap + SumCap(Tail(ws))

\* durations placed for identity id
RECURSIVE PlacedOf(_, _)
PlacedOf(ps, id) ==
    IF ps = <<>> THEN 0
    ELSE (IF Head(ps).id = id THEN Head(ps).dur ELSE 0) + PlacedOf(Tail(ps), id)

\* main has returned or died at line 234 (not in a call of the calendar or of
\* Trello)
Ended == pc \in {"done", "error"}

Drained ==
    /\ cards = <<>>
    /\ \A i \in 1..Len(orig) : PlacedOf(placements, orig[i].id) = orig[i].estimated_hours

\* a run that returned normally over windows with enough capacity
DrainedAtNormalEnd ==
    (pc = "done" /\ windows # <<>> /\ SumCap(windows) >= SumDur(orig)) => Drained

\* C18: for a window sequence that holds a window and whose capacities add up
\* to at least the durations of the input queue, the run ends with an empty
\* queue and every card placed in full.
C18_Completion ==
    (/\ Ended
     /\ windows # <<>> \/ unseen > 0
     /\ SumCap(windows) + unseen >= SumDur(orig)) => Drained

====
